---- MODULE Spec2Model ----
(***************************************************************************)
(* Model of the portfolio data layer of src/app.py: PortfolioData, the     *)
(* three CSV loaders built on _load_from_csv and csv.DictReader, the       *)
(* aggregate get_portfolio_data and the routes that serve it.              *)
(*                                                                         *)
(* A Python str is a sequence of one-character strings, so that lower()    *)
(* and split(',') are computed character by character.  A CSV file is its  *)
(* header (the column names of its first line) and its data lines, each a  *)
(* sequence of str values, as csv.reader hands them to csv.DictReader.     *)
(***************************************************************************)
EXTENDS Integers, Sequences, FiniteSets, TLC

VARIABLES fs, resp, cache

vars == <<fs, resp, cache>>

(***************************************************************************)
(* Bounds                                                                  *)
(***************************************************************************)
\* the largest number of data lines of a source file
MaxLines == 2

(***************************************************************************)
(* Python values                                                           *)
(***************************************************************************)
\* Python's None: no str holds an element that is not a single character
None == <<"None">>

\* truthiness of a str or None: None and '' are falsy
Truthy(v) == v # None /\ v # <<>>

\* `v or d`
OrElse(v, d) == IF Truthy(v) THEN v ELSE d

UpperAlpha ==
  <<"A","B","C","D","E","F","G","H","I","J","K","L","M",
    "N","O","P","Q","R","S","T","U","V","W","X","Y","Z">>

LowerAlpha ==
  <<"a","b","c","d","e","f","g","h","i","j","k","l","m",
    "n","o","p","q","r","s","t","u","v","w","x","y","z">>

LowerChar(c) ==
  IF \E i \in 1..26 : UpperAlpha[i] = c
  THEN LowerAlpha[CHOOSE i \in 1..26 : UpperAlpha[i] = c]
  ELSE c

\* str.lower()
lower(s) == [i \in 1..Len(s) |-> LowerChar(s[i])]

\* str.split(sep) for a one-character separator
RECURSIVE split(_, _)
split(s, sep) ==
  IF \A i \in 1..Len(s) : s[i] # sep
  THEN <<s>>
  ELSE LET i == CHOOSE k \in 1..Len(s) :
                  s[k] = sep /\ \A j \in 1..(k - 1) : s[j] # sep
       IN  <<SubSeq(s, 1, i - 1)>> \o split(SubSeq(s, i + 1, Len(s)), sep)

(***************************************************************************)
(* String literals of load_projects                                        *)
(***************************************************************************)
StrTrue == <<"t","r","u","e">>

UntitledProject ==
  <<"U","n","t","i","t","l","e","d"," ","P","r","o","j","e","c","t">>

NoDescription ==
  <<"N","o"," ","d","e","s","c","r","i","p","t","i","o","n"," ",
    "p","r","o","v","i","d","e","d">>

Unknown == <<"U","n","k","n","o","w","n">>

OtherCategory == <<"o","t","h","e","r">>

Hash == <<"#">>

DefaultImage ==
  <<"/","s","t","a","t","i","c","/","i","m","a","g","e","s","/",
    "p","r","o","j","e","c","t","s","/","d","e","f","a","u","l","t",
    ".","p","n","g">>

(***************************************************************************)
(* The source files                                                        *)
(***************************************************************************)
ProjectsCsv == "data/projects.csv"
CertificationsCsv == "data/certifications.csv"
BlogPostsCsv == "data/blog_posts.csv"

Paths == {ProjectsCsv, CertificationsCsv, BlogPostsCsv}

ProjectFields ==
  <<"title", "description", "tech_stack", "category",
    "github_url", "demo_url", "is_current", "image_url">>

CertificationFields == <<"title", "issuer", "date", "category", "url">>

BlogPostFields == <<"title", "date", "description", "url", "image_url">>

\* the expected_fields each loader passes for its file
Fields(path) ==
  IF path = ProjectsCsv THEN ProjectFields
  ELSE IF path = CertificationsCsv THEN CertificationFields
  ELSE BlogPostFields

\* A file: whether it exists; whether opening or reading it raises, and
\* then after how many data lines (0: open() or the header read raises);
\* its header and its data lines.
File(header, lines) ==
  [exists |-> TRUE, fails |-> FALSE, good |-> 0,
   header |-> header, lines |-> lines]

FailingFile(header, lines, good) ==
  [exists |-> TRUE, fails |-> TRUE, good |-> good,
   header |-> header, lines |-> lines]

Missing ==
  [exists |-> FALSE, fails |-> FALSE, good |-> 0,
   header |-> <<>>, lines |-> <<>>]

(***************************************************************************)
(* csv.DictReader                                                          *)
(***************************************************************************)
\* the key DictReader files surplus values under (restkey=None)
restkey == "<None>"

\* the value DictReader gives a column the line has no value for
restval == None

MaxOf(S) == CHOOSE x \in S : \A y \in S : y <= x

\* DictReader.__next__ on one non-blank line: dict(zip(fieldnames, row)),
\* then d[restkey] = row[lf:] if the line is longer than the header, or
\* d[key] = restval for key in fieldnames[lr:] if it is shorter.
DictRow(fieldnames, row) ==
  LET lf == Len(fieldnames)
      lr == Len(row)
      keys == {fieldnames[j] : j \in 1..lf}
                \cup (IF lf < lr THEN {restkey} ELSE {})
  IN  [k \in keys |->
         IF lf < lr /\ k = restkey
         THEN SubSeq(row, lf + 1, lr)
         ELSE LET last == MaxOf({j \in 1..lf : fieldnames[j] = k})
              IN  IF last <= lr THEN row[last] ELSE restval]

(***************************************************************************)
(* PortfolioData._load_from_csv                                            *)
(***************************************************************************)
Warning(path) == [level |-> "WARNING", path |-> path]
Error(path) == [level |-> "ERROR", path |-> path]

\* what a loader hands back: whether an exception escaped, the value
\* returned otherwise, and the diagnostics logged on the way
Returned(value, log) == [raised |-> FALSE, value |-> value, log |-> log]
Raised(log) == [raised |-> TRUE, value |-> <<>>, log |-> log]

\* os.path.exists(file_path)
path_exists(f) == f.exists

\* the branch taken when the file does not exist
on_missing_raises(path) == Raised(<<>>)
on_missing(path) == Returned(<<>>, <<Warning(path)>>)

\* the except branch: the rows read so far are dropped
on_read_error_partial(path, data, log) ==
  Returned(data, log \o <<Error(path)>>)
on_read_error(path, data, log) == Returned(<<>>, log \o <<Error(path)>>)

\* all(field in row for field in expected_fields)
has_expected_fields(row, expected_fields) ==
  \A i \in 1..Len(expected_fields) : expected_fields[i] \in DOMAIN row

\* data.append(row)
append_row_front(data, row) == <<row>> \o data
append_row(data, row) == Append(data, row)

\* the for loop over the reader, after n data lines have been read
RECURSIVE read_rows(_, _, _, _, _, _)
read_rows(f, path, expected_fields, n, data, log) ==
  IF f.fails /\ f.good = n
  THEN on_read_error(path, data, log)
  ELSE IF n = Len(f.lines)
  THEN Returned(data, log)
  ELSE LET line == f.lines[n + 1]
       IN  IF line = <<>>
           THEN \* DictReader skips blank lines
                read_rows(f, path, expected_fields, n + 1, data, log)
           ELSE LET row == DictRow(f.header, line)
                IN  IF ~has_expected_fields(row, expected_fields)
                    THEN read_rows(f, path, expected_fields, n + 1, data,
                                   log \o <<Warning(path)>>)
                    ELSE read_rows(f, path, expected_fields, n + 1,
                                   append_row(data, row), log)

load_from_csv(files, file_path, expected_fields) ==
  LET f == files[file_path]
  IN  IF ~path_exists(f)
      THEN on_missing(file_path)
      ELSE read_rows(f, file_path, expected_fields, 0, <<>>, <<>>)

(***************************************************************************)
(* The three loaders                                                       *)
(***************************************************************************)
load_certifications(files) ==
  load_from_csv(files, CertificationsCsv, CertificationFields)

load_blog_posts(files) ==
  load_from_csv(files, BlogPostsCsv, BlogPostFields)

\* row['tech_stack'].split(',') if row['tech_stack'] else ['Unknown']
tech_stack_of(raw) == IF Truthy(raw) THEN split(raw, ",") ELSE <<Unknown>>

\* row['is_current'].lower() raises AttributeError on None
is_current_raises(raw) == raw = None

\* row['is_current'].lower() == 'true'
is_current_of(raw) == lower(raw) = StrTrue

project_of(row) ==
  [title |-> OrElse(row["title"], UntitledProject),
   description |-> OrElse(row["description"], NoDescription),
   tech_stack |-> tech_stack_of(row["tech_stack"]),
   category |-> OrElse(row["category"], OtherCategory),
   github_url |-> OrElse(row["github_url"], Hash),
   demo_url |-> OrElse(row["demo_url"], Hash),
   is_current |-> is_current_of(row["is_current"]),
   image_url |-> OrElse(row["image_url"], DefaultImage)]

load_projects(files) ==
  LET projects_data == load_from_csv(files, ProjectsCsv, ProjectFields)
      rows == projects_data.value
  IN  IF \E i \in 1..Len(rows) : is_current_raises(rows[i]["is_current"])
      THEN Raised(projects_data.log)
      ELSE Returned([i \in 1..Len(rows) |-> project_of(rows[i])],
                    projects_data.log)

(***************************************************************************)
(* PortfolioData.get_portfolio_data                                        *)
(***************************************************************************)
Experience ==
  <<[title |-> "Web Development Intern",
     description |-> "Developed over 22 unique web pages and components for a large-scale e-commerce marketplace project within one month. Contributed to a significant project that has been under continuous development for two years, demonstrating adaptability and rapid integration into existing complex codebase."],
    [title |-> "Technical Educator & Workshop Leader",
     description |-> "Provided private lessons in algorithmics, problem-solving, and web development. Organized and led comprehensive workshops on Flutter, software design, API/backend architecture, AI/ML, and LLM API integration."],
    [title |-> "Project Team Leader & System Architect",
     description |-> "Led development teams of 3-5 members in delivering complex software projects from conception to deployment. Created comprehensive system architecture using UML diagrams. Developed detailed API documentation and technical specifications. Implemented software design patterns and best practices."]>>

Education ==
  [degree |-> "Bachelor of Science in Computer Science",
   level |-> "ISITCom (Higher Institute of Information and Communication Technologies), Sousse, Tunisia. Expected Graduation: June 2025 - Current Year: 3rd Year",
   courses |-> "Relevant Coursework: Data Structures & Algorithms, Database Systems, Software Engineering, Machine Learning, Web Development, Mobile Application Development, Computer Vision"]

Contact ==
  [email |-> "ademyoussfi57@gmail.com",
   whatsapp |-> "+216 55 905 236",
   whatsapp_url |-> "https://wa.me/21655905236",
   linkedin |-> "Adem Youssfi",
   linkedin_url |-> "https://www.linkedin.com/in/adem-youssfi-2289672a4",
   github |-> "Ad2m1109",
   github_url |-> "https://github.com/Ad2m1109",
   blogger |-> "behindthecodebyadem.blogspot.com"]

Stats ==
  [projects_completed |-> "40+",
   technologies_mastered |-> "24+",
   years_coding |-> "5+",
   github_repos |-> "40+"]

\* The dict literal is evaluated in source order: blog_posts, projects,
\* certifications; the first loader that raises ends the evaluation.
get_portfolio_data(files) ==
  LET blog == load_blog_posts(files)
      proj == load_projects(files)
      cert == load_certifications(files)
  IN  IF blog.raised THEN Raised(blog.log)
      ELSE IF proj.raised THEN Raised(blog.log \o proj.log)
      ELSE IF cert.raised THEN Raised(blog.log \o proj.log \o cert.log)
      ELSE Returned(
             [name |-> "Adem Youssfi",
              title |-> "AI Expert | Full Stack Developer | Technical Educator",
              about |-> "A results-driven Computer Science student with over five years of hands-on experience in full-stack development and AI. I have a proven ability to build high-performance, ML-powered applications, lead technical teams, and educate peers through workshops and technical articles. My experience includes a web development internship where I developed over 22 unique web pages for a large-scale e-commerce marketplace. I am passionate about developing scalable, well-documented software and am always eager to learn new technologies.",
              experience |-> Experience,
              education |-> Education,
              blog_posts |-> blog.value,
              projects |-> proj.value,
              certifications |-> cert.value,
              contact |-> Contact,
              stats |-> Stats],
             blog.log \o proj.log \o cert.log)

(***************************************************************************)
(* Routes                                                                  *)
(***************************************************************************)
Routes ==
  {"/", "/api/projects", "/api/certifications", "/api/blog", "/api/stats"}

\* get_portfolio_data()[key], an exception of get_portfolio_data escaping
slice(files, key) ==
  LET data == get_portfolio_data(files)
  IN  IF data.raised THEN data ELSE Returned(data.value[key], data.log)

\* what each view function hands to render_template or jsonify
view(route, files) ==
  IF route = "/" THEN get_portfolio_data(files)
  ELSE IF route = "/api/projects" THEN slice(files, "projects")
  ELSE IF route = "/api/certifications" THEN slice(files, "certifications")
  ELSE IF route = "/api/blog" THEN slice(files, "blog_posts")
  ELSE slice(files, "stats")

\* Cache(app) is constructed, and no view function is decorated with
\* @cache.cached: no route is served from the cache.
cached_view_projects(route) == route = "/api/projects"
cached_view(route) == FALSE

NotCached == [hit |-> FALSE, out |-> Returned(<<>>, <<>>)]

Response(route, arg, out) ==
  [route |-> route, arg |-> arg, raised |-> out.raised,
   body |-> out.value, log |-> out.log]

\* no request is being answered
NoResponse == Response("", "", Returned(<<>>, <<>>))

\* equality of responses that never compares bodies of different shapes
SameResponse(a, b) ==
  /\ a.route = b.route
  /\ a.arg = b.arg
  /\ a.raised = b.raised
  /\ a.log = b.log
  /\ (~a.raised => a.body = b.body)

(***************************************************************************)
(* Bounded inputs                                                          *)
(***************************************************************************)
Digit == <<"1","2","3","4","5","6","7","8","9">>

\* a line of n non-empty values, different in every column
FullLine(n, tag) == [k \in 1..n |-> <<tag, Digit[k]>>]

\* a line of n empty values: ",,,,"
EmptyLine(n) == [k \in 1..n |-> <<>>]

\* lines of every shape for a header of n columns: complete, all values
\* empty, one value short, a single value, blank, one value too many
GenericLines(n) ==
  {FullLine(n, "a"), FullLine(n, "b"), EmptyLine(n),
   SubSeq(FullLine(n, "a"), 1, n - 1), FullLine(1, "b"), <<>>,
   FullLine(n + 1, "a")}

ProjectLine(tech_stack, is_current) ==
  [FullLine(Len(ProjectFields), "a") EXCEPT ![3] = tech_stack,
                                            ![7] = is_current]

ProjectLines ==
  {ProjectLine(<<"p", ",", "q">>, StrTrue),
   ProjectLine(<<" ", "p", ",", " ", "q">>, <<"T","r","u","e">>),
   ProjectLine(<<",">>, <<"T","R","U","E">>),
   ProjectLine(<<"p", ",">>, <<"f","a","l","s","e">>),
   ProjectLine(<<>>, <<" ","t","r","u","e">>)}

Lines(path) ==
  GenericLines(Len(Fields(path)))
    \cup (IF path = ProjectsCsv THEN ProjectLines ELSE {})

LineSeqs(path) == UNION {[1..n -> Lines(path)] : n \in 0..MaxLines}

\* the expected header, one lacking its last column, one with a column more
Headers(path) ==
  {Fields(path),
   SubSeq(Fields(path), 1, Len(Fields(path)) - 1),
   Fields(path) \o <<"notes">>}

InputFiles(path) ==
  {Missing}
    \cup {File(h, ls) : h \in Headers(path), ls \in LineSeqs(path)}
    \cup UNION {{FailingFile(Fields(path), ls, g) : g \in 0..Len(ls)} :
                  ls \in LineSeqs(path)}

\* the contents an edit leaves in a file while the server runs
EditedFiles(path) ==
  {FailingFile(Fields(path), <<>>, 0),
   File(Fields(path), <<>>),
   File(Fields(path), <<FullLine(Len(Fields(path)), "a")>>),
   File(Fields(path), <<FullLine(1, "b")>>)}
    \cup (IF path = ProjectsCsv
          THEN {File(ProjectFields,
                     <<ProjectLine(<<"p", ",", "q">>, <<"T","r","u","e">>)>>)}
          ELSE {})

(***************************************************************************)
(* Actions                                                                 *)
(***************************************************************************)
\* a request to a route: the view function runs and its result becomes
\* the response
Serve(route) ==
  /\ resp = NoResponse
  /\ LET hit == cached_view(route) /\ cache[route].hit
         out == IF hit THEN cache[route].out ELSE view(route, fs)
     IN  /\ resp' = Response(route, "", out)
         /\ cache' = IF cached_view(route) /\ ~hit /\ ~out.raised
                     THEN [cache EXCEPT ![route] = [hit |-> TRUE, out |-> out]]
                     ELSE cache
  /\ UNCHANGED fs

index == Serve("/")
api_projects == Serve("/api/projects")
api_certifications == Serve("/api/certifications")
api_blog_posts == Serve("/api/blog")
api_stats == Serve("/api/stats")

\* the response has been returned and is discarded
SendResponse ==
  /\ resp # NoResponse
  /\ resp' = NoResponse
  /\ UNCHANGED <<fs, cache>>

\* the site's owner rewrites or removes a source file
WriteFile(path, f) ==
  /\ fs[path] # f
  /\ fs' = [fs EXCEPT ![path] = f]
  /\ UNCHANGED <<resp, cache>>

DeleteFile(path) ==
  /\ fs[path].exists
  /\ fs' = [fs EXCEPT ![path] = Missing]
  /\ UNCHANGED <<resp, cache>>

\* direct calls of the loaders
CallLoadFromCsv(path) ==
  /\ resp = NoResponse
  /\ resp' = Response("_load_from_csv", path,
                      load_from_csv(fs, path, Fields(path)))
  /\ UNCHANGED <<fs, cache>>

CallLoadProjects ==
  /\ resp = NoResponse
  /\ resp' = Response("load_projects", ProjectsCsv, load_projects(fs))
  /\ UNCHANGED <<fs, cache>>

CallLoadCertifications ==
  /\ resp = NoResponse
  /\ resp' = Response("load_certifications", CertificationsCsv,
                      load_certifications(fs))
  /\ UNCHANGED <<fs, cache>>

CallLoadBlogPosts ==
  /\ resp = NoResponse
  /\ resp' = Response("load_blog_posts", BlogPostsCsv, load_blog_posts(fs))
  /\ UNCHANGED <<fs, cache>>

(***************************************************************************)
(* Specifications                                                          *)
(***************************************************************************)
\* the running server: the deployed files hold one row each
Init ==
  /\ fs = [p \in Paths |-> File(Fields(p), <<FullLine(Len(Fields(p)), "a")>>)]
  /\ resp = NoResponse
  /\ cache = [r \in Routes |-> NotCached]

Next ==
  \/ index
  \/ api_projects
  \/ api_certifications
  \/ api_blog_posts
  \/ api_stats
  \/ SendResponse
  \/ \E p \in Paths : \E f \in EditedFiles(p) : WriteFile(p, f)
  \/ \E p \in Paths : DeleteFile(p)

Spec == Init /\ [][Next]_vars

\* the loaders as functions of one source file, the other two missing
InitLoad ==
  /\ \E p \in Paths : \E f \in InputFiles(p) :
       fs = [q \in Paths |-> IF q = p THEN f ELSE Missing]
  /\ resp = NoResponse
  /\ cache = [r \in Routes |-> NotCached]

NextLoad ==
  \/ \E p \in Paths : CallLoadFromCsv(p)
  \/ CallLoadProjects
  \/ CallLoadCertifications
  \/ CallLoadBlogPosts
  \/ SendResponse

SpecLoad == InitLoad /\ [][NextLoad]_vars

(***************************************************************************)
(* Properties                                                              *)
(***************************************************************************)
LoaderRoutes == {"load_projects", "load_certifications", "load_blog_posts"}

\* the file the answered loader call read (SpecLoad never edits a file)
ReadFile == fs[resp.arg]

Readable(f) == f.exists /\ ~f.fails

\* the data line holds a value for the column
HasValue(header, line, field) ==
  \E j \in 1..Len(header) : header[j] = field /\ j <= Len(line)

\* the data line holds a value for every required column
Complete(header, line, fields) ==
  \A i \in 1..Len(fields) : HasValue(header, line, fields[i])

\* the rows _load_from_csv accepts for the file of a path
Accepted(path) == load_from_csv(fs, path, Fields(path)).value

\* C1: get_portfolio_data never surfaces an error: whatever the state of
\* the three source files, the call returns an aggregate and no exception
\* escapes.
C1_NoErrorEscapes == resp.route = "/" => ~resp.raised

\* C2: _load_from_csv returns exactly the rows of the data lines that hold
\* a value for every required column, in their original order; a line
\* with fewer values than the header, so that a required column has no
\* value, is absent.
C2_IncompleteRowsSkipped ==
  (resp.route = "_load_from_csv" /\ Readable(ReadFile)) =>
    LET f == ReadFile
        Keep(line) == Complete(f.header, line, Fields(resp.arg))
        kept == SelectSeq(f.lines, Keep)
    IN  /\ ~resp.raised
        /\ resp.body = [i \in 1..Len(kept) |-> DictRow(f.header, kept[i])]

\* a well-formed source file: readable, its header holds every required
\* column, every data line has one value per header column
WellFormed(f, fields) ==
  /\ Readable(f)
  /\ \A i \in 1..Len(fields) : \E j \in 1..Len(f.header) : f.header[j] = fields[i]
  /\ \A n \in 1..Len(f.lines) : Len(f.lines[n]) = Len(f.header)

\* C3: for a well-formed source file _load_from_csv returns as many rows
\* as there are data lines, and the i-th row maps every header column to
\* the value of the i-th data line in that column.
C3_WellFormedAllRowsInOrder ==
  (resp.route = "_load_from_csv" /\ WellFormed(ReadFile, Fields(resp.arg))) =>
    LET f == ReadFile
    IN  /\ ~resp.raised
        /\ Len(resp.body) = Len(f.lines)
        /\ \A i \in 1..Len(f.lines) :
             /\ DOMAIN resp.body[i] = {f.header[j] : j \in 1..Len(f.header)}
             /\ \A j \in 1..Len(f.header) :
                  resp.body[i][f.header[j]] = f.lines[i][j]

C3_Witness ==
  /\ resp.route = "_load_from_csv"
  /\ WellFormed(ReadFile, Fields(resp.arg))
  /\ Len(ReadFile.lines) = 2
  /\ ReadFile.lines[1] # ReadFile.lines[2]
  /\ Len(resp.body) = 2

\* C4: when the source file does not exist, load_projects,
\* load_certifications and load_blog_posts return the empty sequence and
\* do not raise.
C4_MissingFileEmpty ==
  (resp.route \in LoaderRoutes /\ ~ReadFile.exists) =>
    (~resp.raised /\ resp.body = <<>>)

C4_Witness ==
  /\ resp.route = "load_projects"
  /\ ~ReadFile.exists
  /\ resp.body = <<>>
  /\ resp.log = <<Warning(ProjectsCsv)>>

\* C5: when the source file exists and opening or reading it fails at any
\* point, _load_from_csv returns the empty sequence and does not raise,
\* also when valid rows were read before the failure.
C5_ReadFailureEmpty ==
  (resp.route = "_load_from_csv" /\ ReadFile.exists /\ ReadFile.fails) =>
    (~resp.raised /\ resp.body = <<>>)

C5_Witness ==
  /\ resp.route = "_load_from_csv"
  /\ ReadFile.exists
  /\ ReadFile.fails
  /\ ReadFile.good >= 1
  /\ Complete(ReadFile.header, ReadFile.lines[1], Fields(resp.arg))
  /\ resp.body = <<>>

\* C6: for every row accepted by validation load_projects produces a
\* record whose is_current is true exactly when the raw is_current equals
\* "true" ignoring letter case; every other raw value, the empty and the
\* absent one included, gives false.
C6_IsCurrent ==
  resp.route = "load_projects" =>
    LET rows == Accepted(ProjectsCsv)
    IN  /\ ~resp.raised
        /\ Len(resp.body) = Len(rows)
        /\ \A i \in 1..Len(rows) :
             LET raw == rows[i]["is_current"]
             IN  resp.body[i].is_current = (raw # None /\ lower(raw) = StrTrue)

\* the field is the raw value when that is non-empty, the fallback when
\* it is empty
Defaulted(value, raw, fallback) ==
  /\ (raw # None /\ raw # <<>>) => value = raw
  /\ raw = <<>> => value = fallback

\* C7: load_projects returns one record per accepted row, in row order,
\* each field the raw value when that is non-empty and its documented
\* fallback when it is empty; tech_stack is the raw value split on commas,
\* untrimmed, or ["Unknown"].
C7_ProjectDefaults ==
  resp.route = "load_projects" =>
    LET rows == Accepted(ProjectsCsv)
    IN  /\ ~resp.raised
        /\ Len(resp.body) = Len(rows)
        /\ \A i \in 1..Len(rows) :
             LET row == rows[i]
                 rec == resp.body[i]
             IN  /\ Defaulted(rec.title, row["title"], UntitledProject)
                 /\ Defaulted(rec.description, row["description"], NoDescription)
                 /\ Defaulted(rec.category, row["category"], OtherCategory)
                 /\ Defaulted(rec.github_url, row["github_url"], Hash)
                 /\ Defaulted(rec.demo_url, row["demo_url"], Hash)
                 /\ Defaulted(rec.image_url, row["image_url"], DefaultImage)
                 /\ (row["tech_stack"] # None /\ row["tech_stack"] # <<>>) =>
                      rec.tech_stack = split(row["tech_stack"], ",")
                 /\ row["tech_stack"] = <<>> => rec.tech_stack = <<Unknown>>

\* C8: every request is answered from the source files as they are when
\* the request is served: nothing an earlier request saw is carried over.
C8_FreshOnEveryRequest ==
  [][(resp.route = "" /\ resp'.route \in Routes) =>
       SameResponse(resp', Response(resp'.route, "", view(resp'.route, fs)))]_vars

\* a request answered after an edit (every file starts with one row) and
\* followed by another edit of the file it read
C8_Witness ==
  /\ resp.route = "/api/certifications"
  /\ ~resp.raised
  /\ resp.body = <<>>
  /\ Len(fs[CertificationsCsv].lines) = 1

\* C9: load_certifications and load_blog_posts map, for every accepted
\* row, each required column to exactly the raw string the data line holds
\* in that column.
C9_PassThrough ==
  (resp.route \in {"load_certifications", "load_blog_posts"}
     /\ Readable(ReadFile)) =>
    LET f == ReadFile
        fields == Fields(resp.arg)
        Keep(line) == line # <<>> /\ has_expected_fields(DictRow(f.header, line), fields)
        kept == SelectSeq(f.lines, Keep)
    IN  /\ ~resp.raised
        /\ Len(resp.body) = Len(kept)
        /\ \A i \in 1..Len(kept) : \A k \in 1..Len(fields) :
             \E j \in 1..Len(f.header) :
               /\ f.header[j] = fields[k]
               /\ j <= Len(kept[i])
               /\ resp.body[i][fields[k]] = kept[i][j]

\* C10: api_stats returns the same fixed stats mapping for every state of
\* the three source files.
C10_StatsIndependent ==
  resp.route = "/api/stats" => (~resp.raised /\ resp.body = Stats)

====
